---- MODULE Spec2Model ----
(***************************************************************************)
(* Model of src/main.py: a Streamlit page that asks a generative model for *)
(* a SQL suggestion, lets the user edit and execute the query against a    *)
(* PostgreSQL database, and asks a summarization endpoint to explain the   *)
(* result rows.                                                            *)
(*                                                                         *)
(* Strings are sequences of one-character strings, so that strip(),        *)
(* lower(), startswith(), endswith() and slicing are computed as Python    *)
(* computes them.  Fixed user-visible literals are TLA+ strings.           *)
(***************************************************************************)
EXTENDS Integers, Sequences, FiniteSets, TLC

VARIABLES pc, requests, user_need, gen, suggested_query, query, button,
          connOk, dbOut, dbBefore, db, openConns, result_df,
          http, explanation, log, raised

vars == <<pc, requests, user_need, gen, suggested_query, query, button,
          connOk, dbOut, dbBefore, db, openConns, result_df,
          http, explanation, log, raised>>

----------------------------------------------------------------------------
(* Bounds of the model *)

\* number of runs of app() (one per user interaction)
MaxRequests == 2
\* rows a read returns / row changes a write applies before it ends
MaxRows == 2
\* whitespace characters put around the sample texts
MaxPad == 1

----------------------------------------------------------------------------
(* Python string primitives *)

IsSpace(c) == c \in {" ", "\n", "\t"}

\* str.lower() on the letters the sample texts use
LowerChar(c) ==
  CASE c = "S" -> "s" [] c = "E" -> "e" [] c = "L" -> "l" [] c = "C" -> "c"
    [] c = "T" -> "t" [] c = "D" -> "d" [] c = "Q" -> "q" [] OTHER -> c

Lower(s) == [i \in 1..Len(s) |-> LowerChar(s[i])]

RECURSIVE LStrip(_)
LStrip(s) == IF s # <<>> /\ IsSpace(Head(s)) THEN LStrip(Tail(s)) ELSE s

RECURSIVE RStrip(_)
RStrip(s) ==
  IF s # <<>> /\ IsSpace(s[Len(s)]) THEN RStrip(SubSeq(s, 1, Len(s) - 1)) ELSE s

\* str.strip()
Strip(s) == RStrip(LStrip(s))

\* str.startswith(p)
StartsWith(s, p) == Len(s) >= Len(p) /\ SubSeq(s, 1, Len(p)) = p

\* str.endswith(p)
EndsWith(s, p) == Len(s) >= Len(p) /\ SubSeq(s, Len(s) - Len(p) + 1, Len(s)) = p

Min(a, b) == IF a <= b THEN a ELSE b
Max(a, b) == IF a >= b THEN a ELSE b

\* s[start:-tail] with start >= 0 and tail > 0, as Python clips the indices
Slice(s, start, tail) ==
  LET lo == Min(start, Len(s))
      hi == Max(Len(s) - tail, 0)
  IN  IF lo >= hi THEN <<>> ELSE SubSeq(s, lo + 1, hi)

\* truth value of a str: only the empty string is false
Truthy(s) == s # <<>>

----------------------------------------------------------------------------
(* Literals of the source *)

\* the backquote character (written as an atom: the lexer takes no backquote)
BT == "bq"
Fence == <<BT, BT, BT>>
FenceSql == Fence \o <<"s", "q", "l">>
Select == <<"s", "e", "l", "e", "c", "t">>
\* the slice [7:-3] of the fenced suggestion
FenceSkip == 7
FenceTail == 3

MsgGenericFailure == "Error generating explanation."
MsgUnable == "Unable to generate an explanation."
MsgNoSummary == "No summary provided."

None == [kind |-> "None", rows |-> 0]
DataFrame(n) == [kind |-> "DataFrame", rows |-> n]

----------------------------------------------------------------------------
(* Inputs: what the user types and what the remote services answer *)

Spaces(n) == [i \in 1..n |-> " "]
Pads == {Spaces(n) : n \in 0..MaxPad}

\* the intent field: empty, whitespace only, a word, a padded word
Intents == {p \o w \o p : p \in Pads, w \in {<<>>, <<"a">>}}

InnerSql ==
  { <<>>,
    <<"S", "E", "L", "E", "C", "T", " ", "1">>,
    <<"d", "e", "l", "e", "t", "e">> }
Opens == {<<>>, Fence \o <<"\n">>, FenceSql \o <<"\n">>, FenceSql}
Closes == {<<>>, <<"\n">> \o Fence}

\* response.text of a completion: an optional opening fence (bare, tagged,
\* tagged with no line break), the SQL, an optional closing fence
Completions ==
  { [kind |-> "text", text |-> p \o o \o i \o c \o p,
     fenced |-> (o # <<>> /\ c # <<>>), inner |-> i] :
      p \in Pads, o \in Opens, i \in InnerSql, c \in Closes }

GenFailure(k) == [kind |-> k, text |-> <<>>, fenced |-> FALSE, inner |-> <<>>]

\* failures of the call: generate_content raises; the response has no text
\* attribute; reading the attribute raises; the attribute is not a str
GenFailures ==
  {GenFailure(k) : k \in {"raises", "no_text", "text_raises", "text_none"}}

GenOutcomes == Completions \cup GenFailures
NoGen == GenFailure("none")

\* the query field: the suggestion left as it is, or text typed over it
TypedBodies ==
  { <<>>,
    <<"S", "e", "L", "e", "C", "t", " ", "1">>,
    <<"s", "e", "l", "e", "c">>,
    <<"d", "e", "s", "e", "l", "e", "c", "t">>,
    <<"\n", "s", "e", "l", "e", "c", "t", "\t">> }
TypedQueries == {p \o b \o p : p \in Pads, b \in TypedBodies}

\* what the database does with a statement: rows returned (read) or row
\* changes applied before the statement ends (write), and whether it raises
DbOutcomes == [error : BOOLEAN, n : 0..MaxRows]
NoDb == [error |-> FALSE, n |-> 0]

\* body of the HTTP answer: whether it is JSON, whether the JSON value is
\* a list, and the elements of the list
Elem(isDict, summary) == [isDict |-> isDict, summary |-> summary]
Elems ==
  { Elem(TRUE, "str"), Elem(TRUE, "null"), Elem(TRUE, "absent"),
    Elem(FALSE, "absent") }
Bodies ==
  { [json |-> FALSE, isList |-> FALSE, items |-> <<>>],
    [json |-> TRUE, isList |-> FALSE, items |-> <<>>],
    [json |-> TRUE, isList |-> TRUE, items |-> <<>>] }
  \cup { [json |-> TRUE, isList |-> TRUE, items |-> <<e>>] : e \in Elems }

HttpOutcome(k, b, j) == [kind |-> k, body |-> b, jsonErrCaught |-> j]
NoBody == [json |-> FALSE, isList |-> FALSE, items |-> <<>>]
\* requests.post raises; raise_for_status raises; a 2xx answer.  Whether the
\* error of response.json() is a RequestException depends on the installed
\* version of requests, so both are possible.
HttpOutcomes ==
  { HttpOutcome("network_error", NoBody, TRUE),
    HttpOutcome("status_error", NoBody, TRUE) }
  \cup { HttpOutcome("ok", b, j) : b \in Bodies, j \in BOOLEAN }
NoHttp == HttpOutcome("none", NoBody, TRUE)

NoExplanation == [isStr |-> TRUE, value |-> ""]
Str(v) == [isStr |-> TRUE, value |-> v]
NotStr == [isStr |-> FALSE, value |-> "None"]

----------------------------------------------------------------------------
(* create_connection and execute_query *)

\* engine.connect() succeeds, or the error is reported and (None, None) returned
create_connection(ok) ==
  IF ok THEN [conn |-> TRUE, log |-> <<"engine.connect">>]
  ELSE [conn |-> FALSE, log |-> <<"st.error:connect">>]

\* variant: the query is not trimmed before the prefix test
IsSelectNoStrip(q) == StartsWith(Lower(q), Select)

\* query.strip().lower().startswith("select")
IsSelect(q) == StartsWith(Lower(Strip(q)), Select)

\* leaving "with conn.begin()" normally: the working state becomes the state
Commit(committed, working) == working

\* variant: the changes made before the error are kept
RollbackKeepsWorking(committed, working) == working

\* leaving "with conn.begin()" by an exception: the working state is dropped
Rollback(committed, working) == committed

\* the except clause of execute_query: report and return None; the
\* connection is not closed on this path
QueryFailed(prefix, dbv) ==
  [ret |-> None, log |-> prefix \o <<"st.error:execute">>, db |-> dbv,
   open |-> 1, raised |-> FALSE]

execute_query(q, ok, out, dbv) ==
  LET c == create_connection(ok) IN
  IF ~c.conn
  THEN [ret |-> None, log |-> c.log, db |-> dbv, open |-> 0, raised |-> FALSE]
  ELSE IF IsSelect(q)
  THEN IF out.error
       THEN QueryFailed(c.log \o <<"pd.read_sql">>, dbv)
       ELSE [ret |-> DataFrame(out.n),
             log |-> c.log \o <<"pd.read_sql", "conn.close">>,
             db |-> dbv, open |-> 0, raised |-> FALSE]
  ELSE IF out.error
       THEN QueryFailed(c.log \o <<"conn.begin", "conn.execute", "rollback">>,
                        Rollback(dbv, dbv + out.n))
       ELSE [ret |-> None,
             log |-> c.log \o <<"conn.begin", "conn.execute", "commit",
                                "conn.close">>,
             db |-> Commit(dbv, dbv + out.n), open |-> 0, raised |-> FALSE]

----------------------------------------------------------------------------
(* get_sql_suggestion *)

\* variant: no early return for a missing intent
NoInputNever(user_input) == FALSE

\* "if not user_input"
NoInput(user_input) == ~Truthy(user_input)

\* strip the text; a text that starts with ```sql and ends with ``` loses
\* its first 7 and last 3 characters and is stripped again
CleanSuggestion(text) ==
  LET s == Strip(text) IN
  IF StartsWith(s, FenceSql) /\ EndsWith(s, Fence)
  THEN Strip(Slice(s, FenceSkip, FenceTail))
  ELSE s

\* variant: the exception leaves get_sql_suggestion
SuggestionReraises ==
  [ret |-> <<>>, log |-> <<"generate_content">>, raised |-> TRUE]

\* the except clause of get_sql_suggestion
SuggestionFailed ==
  [ret |-> <<>>, log |-> <<"generate_content", "st.error:suggest">>,
   raised |-> FALSE]

\* the else branch of hasattr(response, "text")
SuggestionNoText ==
  [ret |-> <<>>, log |-> <<"generate_content">>, raised |-> FALSE]

get_sql_suggestion(user_input, g) ==
  IF NoInput(user_input)
  THEN [ret |-> <<>>, log |-> <<>>, raised |-> FALSE]
  ELSE CASE g.kind = "raises" -> SuggestionFailed
         [] g.kind = "no_text" -> SuggestionNoText
         [] g.kind = "text_raises" -> SuggestionFailed
         [] g.kind = "text_none" -> SuggestionFailed
         [] OTHER -> [ret |-> CleanSuggestion(g.text),
                      log |-> <<"generate_content">>, raised |-> FALSE]

----------------------------------------------------------------------------
(* get_sql_response_explanation *)

\* the except clause, which catches requests.exceptions.RequestException only
ExplanationFailed ==
  [ret |-> Str(MsgGenericFailure),
   log |-> <<"requests.post", "st.error:hf_call">>, raised |-> FALSE]

\* an exception the except clause does not catch leaves the function
ExplanationRaises ==
  [ret |-> NoExplanation, log |-> <<"requests.post">>, raised |-> TRUE]

\* response_json[0].get("summary_text", "No summary provided.")
FirstSummary(e) ==
  IF ~e.isDict THEN ExplanationRaises
  ELSE [ret |-> CASE e.summary = "str" -> Str("summary_text")
                  [] e.summary = "null" -> NotStr
                  [] OTHER -> Str(MsgNoSummary),
        log |-> <<"requests.post">>, raised |-> FALSE]

get_sql_response_explanation(h) ==
  IF h.kind # "ok" THEN ExplanationFailed
  ELSE IF ~h.body.json
  THEN IF h.jsonErrCaught THEN ExplanationFailed ELSE ExplanationRaises
  ELSE IF h.body.isList /\ Len(h.body.items) > 0
  THEN FirstSummary(h.body.items[1])
  ELSE [ret |-> Str(MsgUnable),
        log |-> <<"requests.post", "st.error:hf_format">>, raised |-> FALSE]

----------------------------------------------------------------------------
(* app: one run of the script per user interaction *)

Init ==
  /\ pc = "text_input"
  /\ requests = 1
  /\ user_need = <<>>
  /\ gen = NoGen
  /\ suggested_query = <<>>
  /\ query = <<>>
  /\ button = FALSE
  /\ connOk = TRUE
  /\ dbOut = NoDb
  /\ dbBefore = 0
  /\ db = 0
  /\ openConns = 0
  /\ result_df = None
  /\ http = NoHttp
  /\ explanation = NoExplanation
  /\ log = <<>>
  /\ raised = "none"

\* user_need = st.text_input(...)
TextInput ==
  /\ pc = "text_input"
  /\ \E i \in Intents : user_need' = i
  /\ pc' = "suggest"
  /\ UNCHANGED <<requests, gen, suggested_query, query, button, connOk, dbOut,
                 dbBefore, db, openConns, result_df, http, explanation, log,
                 raised>>

\* suggested_query = get_sql_suggestion(user_need)
GetSqlSuggestion ==
  /\ pc = "suggest"
  /\ \E g \in GenOutcomes :
       LET r == get_sql_suggestion(user_need, g) IN
       /\ gen' = IF NoInput(user_need) THEN NoGen ELSE g
       /\ suggested_query' = r.ret
       /\ log' = log \o r.log
       /\ raised' = IF r.raised THEN "get_sql_suggestion" ELSE raised
       /\ pc' = IF r.raised THEN "crashed" ELSE "text_area"
  /\ UNCHANGED <<requests, user_need, query, button, connOk, dbOut, dbBefore,
                 db, openConns, result_df, http, explanation>>

\* query = st.text_area(..., value=suggested_query); st.button("Execute Query")
TextArea ==
  /\ pc = "text_area"
  /\ \E q \in {suggested_query} \cup TypedQueries : query' = q
  /\ \E b \in BOOLEAN : button' = b
  /\ pc' = "button"
  /\ UNCHANGED <<requests, user_need, gen, suggested_query, connOk, dbOut,
                 dbBefore, db, openConns, result_df, http, explanation, log,
                 raised>>

\* variant: the query field is not tested
ShouldExecuteAnyQuery(b, q) == b

\* "if st.button(...)" and "if query": the query is executed
ShouldExecute(b, q) == b /\ Truthy(q)

\* the branches of lines 178-179 and 191-192
Button ==
  /\ pc = "button"
  /\ IF ShouldExecute(button, query)
     THEN pc' = "execute" /\ log' = log
     ELSE /\ pc' = "done"
          /\ log' = IF button THEN log \o <<"st.warning">> ELSE log
  /\ UNCHANGED <<requests, user_need, gen, suggested_query, query, button,
                 connOk, dbOut, dbBefore, db, openConns, result_df, http,
                 explanation, raised>>

\* result_df = execute_query(query)
ExecuteQuery ==
  /\ pc = "execute"
  /\ \E ok \in BOOLEAN, out \in DbOutcomes :
       LET r == execute_query(query, ok, out, db) IN
       /\ connOk' = ok
       /\ dbOut' = IF ok THEN out ELSE NoDb
       /\ dbBefore' = db
       /\ db' = r.db
       /\ openConns' = openConns + r.open
       /\ result_df' = r.ret
       /\ log' = log \o r.log
       /\ raised' = IF r.raised THEN "execute_query" ELSE raised
       /\ pc' = IF r.raised THEN "crashed" ELSE "render"
  /\ UNCHANGED <<requests, user_need, gen, suggested_query, query, button,
                 http, explanation>>

\* variant: an empty table is shown too
ShouldRenderAnyTable(df) == df.kind = "DataFrame"

\* "result_df is not None and not result_df.empty"
ShouldRender(df) == df.kind = "DataFrame" /\ df.rows > 0

\* lines 181-183 and 189-190: show the table, or the success message
Render ==
  /\ pc = "render"
  /\ IF ShouldRender(result_df)
     THEN /\ log' = log \o <<"st.write:results", "st.dataframe">>
          /\ pc' = "explain"
     ELSE /\ log' = log \o <<"st.success">>
          /\ pc' = "done"
  /\ UNCHANGED <<requests, user_need, gen, suggested_query, query, button,
                 connOk, dbOut, dbBefore, db, openConns, result_df, http,
                 explanation, raised>>

\* lines 186-188: explanation = get_sql_response_explanation(result_df),
\* then the two st.write calls
Explain ==
  /\ pc = "explain"
  /\ \E h \in HttpOutcomes :
       LET r == get_sql_response_explanation(h) IN
       /\ http' = h
       /\ explanation' = r.ret
       /\ raised' = IF r.raised THEN "get_sql_response_explanation"
                    ELSE raised
       /\ log' = IF r.raised THEN log \o r.log
                 ELSE log \o r.log \o <<"st.write:explanation">>
       /\ pc' = IF r.raised THEN "crashed" ELSE "done"
  /\ UNCHANGED <<requests, user_need, gen, suggested_query, query, button,
                 connOk, dbOut, dbBefore, db, openConns, result_df>>

\* the next interaction reruns the script; only the database and the
\* connections left open outlive a run
NextRequest ==
  /\ pc \in {"done", "crashed"}
  /\ requests < MaxRequests
  /\ requests' = requests + 1
  /\ pc' = "text_input"
  /\ user_need' = <<>>
  /\ gen' = NoGen
  /\ suggested_query' = <<>>
  /\ query' = <<>>
  /\ button' = FALSE
  /\ connOk' = TRUE
  /\ dbOut' = NoDb
  /\ dbBefore' = db
  /\ result_df' = None
  /\ http' = NoHttp
  /\ explanation' = NoExplanation
  /\ log' = <<>>
  /\ raised' = "none"
  /\ UNCHANGED <<db, openConns>>

Next ==
  \/ TextInput
  \/ GetSqlSuggestion
  \/ TextArea
  \/ Button
  \/ ExecuteQuery
  \/ Render
  \/ Explain
  \/ NextRequest

Spec == Init /\ [][Next]_vars

----------------------------------------------------------------------------
(* Vocabulary of the properties *)

Has(e) == \E i \in 1..Len(log) : log[i] = e
Count(e) == Cardinality({i \in 1..Len(log) : log[i] = e})
Before(a, b) ==
  \A i, j \in 1..Len(log) : (log[i] = a /\ log[j] = b) => i < j

\* get_sql_suggestion has returned (or raised) in this run
Suggested == pc \notin {"text_input", "suggest"}
\* execute_query was called in this run: it opens its connection first
DbCalled == Has("engine.connect") \/ Has("st.error:connect")
\* the run is over
RunOver == pc \in {"done", "crashed"}
\* the trimmed, lower-cased query starts with "select"
StartsWithSelect(q) == StartsWith(Lower(Strip(q)), Select)
NoBackquote(s) == \A i \in 1..Len(s) : s[i] # BT
FailureKinds == {"raises", "no_text", "text_raises", "text_none"}

----------------------------------------------------------------------------
(* Properties *)

\* C1: a write statement that raises inside the transaction leaves the
\* database as it was before the call, an error message is emitted, and
\* execute_query returns None without raising.
C1_WriteErrorRolledBack ==
  (DbCalled /\ connOk /\ ~StartsWithSelect(query) /\ dbOut.error) =>
    /\ db = dbBefore
    /\ Has("st.error:execute")
    /\ result_df = None
    /\ raised # "execute_query"

\* C1 witness: a write that applied row changes and then raised has returned
C1_Witness ==
  /\ RunOver /\ DbCalled /\ connOk
  /\ ~StartsWithSelect(query) /\ dbOut.error /\ dbOut.n > 0
  /\ Has("rollback")

\* C2: a query whose trimmed, lower-cased form does not start with "select"
\* never takes the read path, and when it completes without error it is
\* committed and None is returned; a query whose trimmed, lower-cased form
\* starts with "select" takes the read path (once the connection is open)
\* and never opens a write transaction.
C2_ClassifiedBySelectPrefix ==
  DbCalled =>
    IF StartsWithSelect(query)
    THEN /\ ~Has("conn.begin") /\ ~Has("conn.execute") /\ db = dbBefore
         /\ connOk => Has("pd.read_sql")
    ELSE /\ ~Has("pd.read_sql")
         /\ result_df.kind # "DataFrame"
         /\ (connOk /\ ~dbOut.error) =>
              /\ Has("commit")
              /\ db = dbBefore + dbOut.n
              /\ result_df = None

\* C2 witness: a non-select statement with row changes was committed
C2_Witness ==
  /\ RunOver /\ DbCalled /\ connOk
  /\ ~StartsWithSelect(query) /\ ~dbOut.error /\ dbOut.n > 0
  /\ Has("commit") /\ db = dbBefore + dbOut.n

\* C3 (as stated): for an intent that is empty or only whitespace,
\* get_sql_suggestion returns the empty string and makes no remote call.
C3_BlankIntentNoCall ==
  (Suggested /\ Strip(user_need) = <<>>) =>
    (suggested_query = <<>> /\ ~Has("generate_content"))

\* C3 (amended): for the empty intent, get_sql_suggestion returns the empty
\* string and makes no remote call.
C3_EmptyIntentNoCall ==
  (Suggested /\ user_need = <<>>) =>
    (suggested_query = <<>> /\ ~Has("generate_content") /\ gen = NoGen)

\* C3 witness: get_sql_suggestion has returned for the empty intent
C3_Witness == pc = "text_area" /\ user_need = <<>> /\ suggested_query = <<>>

\* C4: a completion wrapped in a fenced code block (with or without a
\* language tag) is returned as its inner SQL text exactly, with no fence
\* character; a completion that is not fenced is returned trimmed.
C4_FenceStripped ==
  (Suggested /\ gen.kind = "text") =>
    IF gen.fenced
    THEN suggested_query = gen.inner /\ NoBackquote(suggested_query)
    ELSE suggested_query = Strip(gen.text)

\* C5: execute_query is called only when the execute action was triggered
\* and the query field is not empty; a trigger with an empty query field
\* emits the warning and opens no connection; without the trigger there is
\* no database call.
C5_ExecuteOnlyOnTriggerWithQuery ==
  /\ (DbCalled \/ pc \in {"execute", "render", "explain"}) =>
       (button /\ query # <<>>)
  /\ (RunOver /\ button /\ query = <<>>) =>
       (Has("st.warning") /\ ~DbCalled)
  /\ (RunOver /\ ~button) => ~DbCalled

\* C5 witness: the execute action was triggered with an empty query field
C5_Witness ==
  /\ pc = "done" /\ button /\ query = <<>>
  /\ Has("st.warning") /\ ~DbCalled

\* C6: when the connection cannot be opened or the statement raises, the
\* error is reported, execute_query is not retried, and the run shows no
\* table, calls no explanation and emits no success message.
C6_DbErrorIsTerminal ==
  (RunOver /\ DbCalled /\ (~connOk \/ dbOut.error)) =>
    /\ Has("st.error:connect") \/ Has("st.error:execute")
    /\ Count("engine.connect") + Count("st.error:connect") = 1
    /\ ~Has("st.dataframe")
    /\ ~Has("requests.post")
    /\ ~Has("st.success")

\* C7 (as stated): on every failure of the suggestion call,
\* get_sql_suggestion returns the empty string, does not raise, and emits
\* an error message.
C7_FailureReported ==
  (Suggested /\ gen.kind \in FailureKinds) =>
    /\ suggested_query = <<>>
    /\ raised # "get_sql_suggestion"
    /\ Has("st.error:suggest")

\* C7 (amended): on every failure of the suggestion call,
\* get_sql_suggestion returns the empty string and does not raise; it emits
\* an error message when the call or the reading of the text raised, and
\* none when the response only lacks the text field.
C7_FailureDegradesToEmpty ==
  (Suggested /\ gen.kind \in FailureKinds) =>
    /\ suggested_query = <<>>
    /\ raised # "get_sql_suggestion"
    /\ Has("st.error:suggest") <=> (gen.kind # "no_text")

\* C7 witness: the remote call raised and get_sql_suggestion has returned
C7_Witness ==
  /\ pc = "text_area" /\ gen.kind = "raises"
  /\ suggested_query = <<>> /\ Has("st.error:suggest")

\* C8: get_sql_response_explanation always returns a string and never
\* raises: the generic failure string with an error message on a failed
\* HTTP call, the summary field of the first element when there is one, and
\* a placeholder string on every other shape of a successful answer.
C8_ExplanationTotal ==
  (RunOver /\ http.kind # "none") =>
    /\ raised # "get_sql_response_explanation"
    /\ explanation.isStr
    /\ IF http.kind # "ok"
       THEN explanation = Str(MsgGenericFailure) /\ Has("st.error:hf_call")
       ELSE IF /\ http.body.json /\ http.body.isList
               /\ Len(http.body.items) > 0
               /\ http.body.items[1].isDict
               /\ http.body.items[1].summary # "absent"
            THEN explanation.value = "summary_text"
            ELSE explanation \in {Str(MsgUnable), Str(MsgNoSummary)}

\* C9: every connection execute_query opens is closed before it returns, so
\* no connection is open between the steps of a run or between runs.
C9_NoOpenConnection == openConns = 0

\* C10: after a run that executed a query, the table is shown and the
\* explanation is called, once and after the table, exactly when
\* execute_query returned a table with at least one row; otherwise the
\* "no result to display" message is emitted and neither happens.
C10_RenderIffRows ==
  (RunOver /\ DbCalled) =>
    IF result_df.kind = "DataFrame" /\ result_df.rows > 0
    THEN /\ Count("st.dataframe") = 1
         /\ Count("requests.post") = 1
         /\ Before("st.dataframe", "requests.post")
         /\ ~Has("st.success")
    ELSE /\ Has("st.success")
         /\ ~Has("st.dataframe")
         /\ ~Has("requests.post")

\* C10 witness: a read statement returned a table with zero rows
C10_Witness ==
  /\ pc = "done" /\ DbCalled /\ connOk /\ StartsWithSelect(query)
  /\ result_df = DataFrame(0) /\ Has("st.success") /\ ~Has("st.dataframe")

====
